---- MODULE Spec2Model ----
(***************************************************************************)
(* Model of the batched-inference adapter of the smart_classroom demo      *)
(* (CnnDLSDKBase::Load, CnnDLSDKBase::InferBatch, VectorCNN::Compute) and  *)
(* of the mask_rcnn demo's entry point (argument check, image collection,  *)
(* detection decoder).                                                     *)
(***************************************************************************)
EXTENDS Integers, Sequences, FiniteSets, TLC

\* ------------------------------------------------------------------ bounds
MaxBatch == 3       \* largest config_.max_batch_size explored
MaxFrames == 4      \* largest number of frames handed to one call
MaxFeat == 3        \* largest output feature dimension explored
MaxDim == 2         \* largest height / width of a requested output shape
MaxNetBatch == 2    \* largest network batch size of the mask_rcnn demo explored
MaxPaths == 2       \* largest number of image paths explored
MaskBoxes == 2      \* rows of the detection output when the whole of main runs
PaletteSize == 2    \* arraySize(CITYSCAPES_COLORS), declared in mask_rcnn_demo.h
ImgSize == 10       \* cols and rows of every input image, in pixels
MaskH == 2          \* H of the masks tensor
MaskW == 2          \* W of the masks tensor

\* ------------------------------------------------------------------ state
VARIABLES
    \* smart_classroom: CnnDLSDKBase / VectorCNN
    max_batch_size,   \* config_.max_batch_size
    numInputs,        \* cnnNetwork.getInputsInfo().size()
    numOutputs,       \* cnnNetwork.getOutputsInfo().size()
    coreDyn,          \* dynamic batching switched on in config_.ie for the device
    featDim,          \* dimension 1 of the output tensor
    lpc,              \* position of the constructor: "start", "loaded", "failed"
    netBatch,         \* batch size of the loaded network = dims[0] of the input blob
    dynEnabled,       \* dynamic batching enabled on executable_network_
    loads,            \* the LoadNetwork calls made, in order
    pc,               \* position inside Compute / InferBatch
    caller,           \* "Compute" or "direct" (InferBatch with a caller's callback)
    num_imgs,         \* frames.size()
    outp_shape,       \* <<height, width>>, <<0, 0>> is cv::Size()
    batch_i,          \* loop variable of InferBatch
    current_batch_size,
    input,            \* input blob: slot -> frame index, -1 never written
    activeBatch,      \* batch size the request runs with
    output,           \* output blob: row -> [chunk, frame], chunk -1 never written
    trace,            \* the calls made on the request and the callback, in order
    vectors,          \* *vectors of Compute
    \* mask_rcnn: main
    FLAGS_h,          \* -h given
    FLAGS_i,          \* -i set (non-empty)
    FLAGS_m,          \* -m set (non-empty)
    nPaths,           \* imagePaths.size() after parseInputFilesArguments
    readable,         \* the indices of imagePaths that cv::imread can read
    netBatchSize,     \* batch dimension of the network's image input
    mpc,              \* position in main
    exitCode,         \* -1 while running, then the value main returns
    usageShown,       \* showUsage() ran
    errLogged,        \* slog::err printed an exception's message
    networkRead,      \* ie.ReadNetwork(FLAGS_m) ran
    inferred,         \* LoadNetwork and infer_request.Infer() ran
    ci,               \* i of the collection loop
    inputIndex,       \* inputIndex of the collection loop
    images,           \* images: the index of the path each was read from
    do_rows,          \* the detection output, one record per row
    box,              \* box of the decoder loop
    class_color,      \* class_color: class id -> colour index
    dlog,             \* what the decoder did with each row it examined
    written           \* number of out<i>.png files written

cnnVars == <<max_batch_size, numInputs, numOutputs, coreDyn, featDim, lpc, netBatch,
             dynEnabled, loads, pc, caller, num_imgs, outp_shape, batch_i,
             current_batch_size, input, activeBatch, output, trace, vectors>>

maskVars == <<FLAGS_h, FLAGS_i, FLAGS_m, nPaths, readable, netBatchSize, mpc, exitCode,
              usageShown, errLogged, networkRead, inferred, ci, inputIndex, images,
              do_rows, box, class_color, dlog, written>>

vars == <<cnnVars, maskVars>>

Min(a, b) == IF a < b THEN a ELSE b

CeilDiv(a, b) == (a + b - 1) \div b

Event(op, chunk, slot, frame) == [op |-> op, chunk |-> chunk, slot |-> slot, frame |-> frame]

StaleVector == [chunk |-> -1, row |-> -1, frame |-> -1, rows |-> 0, cols |-> 0]

Shapes == {<<h, w>> : h \in 0..MaxDim, w \in 0..MaxDim}

\* ------------------------------------------------- CnnDLSDKBase::Load pieces
\* One LoadNetwork call: the network batch size it was given and whether the
\* call passed KEY_DYN_BATCH_ENABLED = NO.
LoadCall(batch, dynOff, ok) == [batch |-> batch, dynOff |-> dynOff, ok |-> ok]

FallbackBatchKeep(m) == m

\* cnnNetwork.setBatchSize(1) of the catch block
FallbackBatch(m) == 1

\* The LoadNetwork calls of Load when the first call succeeds (first) or
\* throws InferenceEngine::Exception, and the second succeeds (second) or throws.
LoadCalls(m, first, second) ==
    IF first
    THEN <<LoadCall(m, FALSE, TRUE)>>
    ELSE <<LoadCall(m, FALSE, FALSE), LoadCall(FallbackBatch(m), TRUE, second)>>

\* VectorCNN::VectorCNN: output_blobs_names_.size() != 1 throws
CtorOutputsOk(nOut) == nOut = 1

\* VectorCNN::VectorCNN, which runs CnnDLSDKBase::Load
VectorCNN ==
    /\ lpc = "start"
    /\ \E first \in BOOLEAN, second \in BOOLEAN :
         LET calls == LoadCalls(max_batch_size, first, second)
             last  == calls[Len(calls)]
         IN  IF numInputs # 1
             THEN /\ lpc' = "failed_inputs"
                  /\ UNCHANGED <<loads, netBatch, dynEnabled, input, output, activeBatch>>
             ELSE /\ loads' = calls
                  /\ netBatch' = last.batch
                  /\ dynEnabled' = (last.ok /\ ~last.dynOff /\ coreDyn)
                  /\ lpc' = IF ~last.ok THEN "failed_load"
                            ELSE IF ~CtorOutputsOk(numOutputs) THEN "failed_outputs"
                            ELSE "loaded"
                  /\ input' = [s \in 0..(last.batch - 1) |-> -1]
                  /\ output' = [r \in 0..(last.batch - 1) |-> [chunk |-> -1, frame |-> -1]]
                  /\ activeBatch' = last.batch
    /\ UNCHANGED <<max_batch_size, numInputs, numOutputs, coreDyn, featDim, pc, caller,
                   num_imgs, outp_shape, batch_i, current_batch_size, trace, vectors>>

\* --------------------------------------------- CnnDLSDKBase::InferBatch pieces
ChunkSizeNoMin(B, n, bi) == B

\* current_batch_size = std::min(batch_size, num_imgs - batch_i)
ChunkSize(B, n, bi) == Min(B, n - bi)

\* index of the chunk that starts at batch_i
Chunk == batch_i \div netBatch

\* if (config_.max_batch_size != 1)
NeedsSetBatch == max_batch_size # 1

NextBatchByOne(bi, B) == bi + 1

\* batch_i += batch_size
NextBatch(bi, B) == bi + B

\* the loop test of InferBatch, evaluated for loop variable bi
LoopPc(bi, n) == IF bi < n THEN "fill" ELSE "done"

\* VectorCNN::Compute(images, vectors, outp_shape) up to the first loop test
ComputeCall ==
    /\ lpc = "loaded" /\ pc = "idle"
    /\ \E n \in 0..MaxFrames, s \in Shapes :
         /\ caller' = "Compute"
         /\ num_imgs' = n
         /\ outp_shape' = s
         /\ IF n = 0
            THEN pc' = "done" /\ UNCHANGED vectors
            ELSE pc' = LoopPc(0, n) /\ vectors' = <<>>
    /\ batch_i' = 0
    /\ UNCHANGED <<max_batch_size, numInputs, numOutputs, coreDyn, featDim, lpc, netBatch,
                   dynEnabled, loads, current_batch_size, input, activeBatch, output, trace>>

\* InferBatch(frames, fetch_results) called with a caller's own callback
InferBatchCall ==
    /\ lpc = "loaded" /\ pc = "idle"
    /\ \E n \in 0..MaxFrames :
         /\ caller' = "direct"
         /\ num_imgs' = n
         /\ pc' = LoopPc(0, n)
    /\ batch_i' = 0
    /\ UNCHANGED <<max_batch_size, numInputs, numOutputs, coreDyn, featDim, lpc, netBatch,
                   dynEnabled, loads, outp_shape, current_batch_size, input, activeBatch,
                   output, trace, vectors>>

\* the matToBlob loop of one chunk
FillChunk ==
    /\ pc = "fill"
    /\ LET cur == ChunkSize(netBatch, num_imgs, batch_i)
       IN  /\ current_batch_size' = cur
           /\ input' = [s \in DOMAIN input |-> IF s < cur THEN batch_i + s ELSE input[s]]
           /\ trace' = trace \o [b \in 1..cur |-> Event("copy", Chunk, b - 1, batch_i + b - 1)]
    /\ pc' = "setbatch"
    /\ UNCHANGED <<max_batch_size, numInputs, numOutputs, coreDyn, featDim, lpc, netBatch,
                   dynEnabled, loads, caller, num_imgs, outp_shape, batch_i, activeBatch,
                   output, vectors>>

\* infer_request_.SetBatch(current_batch_size) when the code asks for it.  With
\* dynamic batching enabled the request takes the size; without it the plugin
\* either throws or leaves the request as it is.
SetBatchStep ==
    /\ pc = "setbatch"
    /\ IF NeedsSetBatch
       THEN \E ok \in (IF dynEnabled THEN {TRUE} ELSE BOOLEAN) :
              /\ trace' = Append(trace, Event("setbatch", Chunk, current_batch_size, -1))
              /\ activeBatch' = IF dynEnabled THEN current_batch_size ELSE activeBatch
              /\ pc' = IF ok THEN "infer" ELSE "failed"
       ELSE /\ pc' = "infer"
            /\ UNCHANGED <<trace, activeBatch>>
    /\ UNCHANGED <<max_batch_size, numInputs, numOutputs, coreDyn, featDim, lpc, netBatch,
                   dynEnabled, loads, caller, num_imgs, outp_shape, batch_i,
                   current_batch_size, input, output, vectors>>

\* infer_request_.Infer(): the engine computes rows 0..activeBatch-1 of the
\* output from the same slots of the input and leaves the other rows alone;
\* it may throw.
InferStep ==
    /\ pc = "infer"
    /\ \E ok \in BOOLEAN :
         /\ trace' = Append(trace, Event("infer", Chunk, activeBatch, -1))
         /\ IF ok
            THEN /\ output' = [r \in DOMAIN output |->
                                 IF r < activeBatch
                                 THEN [chunk |-> Chunk, frame |-> input[r]]
                                 ELSE output[r]]
                 /\ pc' = "collect"
            ELSE /\ pc' = "failed"
                 /\ UNCHANGED output
    /\ UNCHANGED <<max_batch_size, numInputs, numOutputs, coreDyn, featDim, lpc, netBatch,
                   dynEnabled, loads, caller, num_imgs, outp_shape, batch_i,
                   current_batch_size, input, activeBatch, vectors>>

\* blobs[name] = infer_request_.GetBlob(name) for every output name
CollectStep ==
    /\ pc = "collect"
    /\ trace' = Append(trace, Event("collect", Chunk, numOutputs, -1))
    /\ pc' = "callback"
    /\ UNCHANGED <<max_batch_size, numInputs, numOutputs, coreDyn, featDim, lpc, netBatch,
                   dynEnabled, loads, caller, num_imgs, outp_shape, batch_i,
                   current_batch_size, input, activeBatch, output, vectors>>
\* ------------------------------------------------ VectorCNN::Compute pieces
\* cv::Mat::reshape(1, {height, width}) applied to the featDim x 1 wrapper of
\* one output row.  Source and request are both two-dimensional, so OpenCV
\* takes the request's first entry as the new number of rows and derives the
\* number of columns: 0 rows keeps the shape, more rows than elements or a row
\* count that does not divide the element count is an error.
MatReshape(F, shape) ==
    LET h == shape[1]
    IN  IF h = 0 \/ h = F THEN [ok |-> TRUE, rows |-> F, cols |-> 1]
        ELSE IF h > F \/ (F \div h) * h # F THEN [ok |-> FALSE, rows |-> 0, cols |-> 0]
        ELSE [ok |-> TRUE, rows |-> h, cols |-> F \div h]

\* the shape of the vector copied out for one row; outp_shape != cv::Size()
\* asks for the reshape
VectorShape(F, shape) ==
    IF shape # <<0, 0>> THEN MatReshape(F, shape) ELSE [ok |-> TRUE, rows |-> F, cols |-> 1]

FetchRowsWholeBlob(cur, B) == B

\* for (size_t b = 0; b < batch_size; b++) of results_fetcher
FetchRows(cur, B) == cur

\* the entries results_fetcher appends: for every output blob, rows
\* 0..rows-1, each copied with the shape sh
Fetched(rows, sh) ==
    [j \in 1..(numOutputs * rows) |->
        LET b == (j - 1) % rows
        IN  [chunk |-> output[b].chunk, row |-> b, frame |-> output[b].frame,
             rows |-> sh.rows, cols |-> sh.cols]]

ReadEvents(rows) == [j \in 1..(numOutputs * rows) |-> Event("read", Chunk, (j - 1) % rows, -1)]

\* fetch_results(blobs, current_batch_size), then batch_i += batch_size and the
\* loop test.  The callback of Compute is results_fetcher: it throws on a null
\* blob, and a reshape error leaves the entry emplaced for that row empty; a
\* caller's own callback returns or throws.
CallbackStep ==
    /\ pc = "callback"
    /\ \E ok \in BOOLEAN :
         LET sh   == VectorShape(featDim, outp_shape)
             rows == FetchRows(current_batch_size, netBatch)
             call == Event("callback", Chunk, current_batch_size, -1)
             good == IF caller = "Compute" THEN ok /\ sh.ok ELSE ok
         IN  /\ IF caller = "Compute" /\ ok
                THEN IF sh.ok
                     THEN /\ vectors' = vectors \o Fetched(rows, sh)
                          /\ trace' = Append(trace, call) \o ReadEvents(rows)
                     ELSE /\ vectors' = Append(vectors, [chunk |-> output[0].chunk, row |-> 0,
                                                         frame |-> output[0].frame,
                                                         rows |-> 0, cols |-> 0])
                          /\ trace' = Append(Append(trace, call), Event("read", Chunk, 0, -1))
                ELSE /\ trace' = Append(trace, call)
                     /\ UNCHANGED vectors
             /\ batch_i' = IF good THEN NextBatch(batch_i, netBatch) ELSE batch_i
             /\ pc' = IF good THEN LoopPc(NextBatch(batch_i, netBatch), num_imgs) ELSE "failed"
    /\ UNCHANGED <<max_batch_size, numInputs, numOutputs, coreDyn, featDim, lpc, netBatch,
                   dynEnabled, loads, caller, num_imgs, outp_shape, current_batch_size,
                   input, activeBatch, output>>

\* ------------------------------------------------- properties, smart_classroom
Events(op) == SelectSeq(trace, LAMBDA e : e.op = op)

Rank(op) ==
    CASE op = "copy" -> 1 [] op = "setbatch" -> 2 [] op = "infer" -> 3
      [] op = "collect" -> 4 [] op = "callback" -> 5 [] op = "read" -> 6

\* the size InferBatch must give chunk k (from 0) of n frames with batch dimension B
ExpectedChunk(k, n, B) == IF k < (n - 1) \div B THEN B ELSE n - B * ((n - 1) \div B)

\* C1: InferBatch splits n frames into consecutive chunks in input order, each
\* of B frames but the last, which has n - B*floor((n-1)/B); frame batch_i + b
\* goes to slot b; when the call returns there was one inference call and one
\* callback per chunk, ceil(n/B) of each, the callback sizes are the chunk
\* sizes, every frame was copied exactly once, and n = 0 gives no call at all.
C1_Chunking ==
    LET B == netBatch
        n == num_imgs
        infers == Events("infer")
        cbs == Events("callback")
        copies == Events("copy")
    IN  /\ \A k \in 1..Len(cbs) :
             cbs[k].chunk = k - 1 /\ cbs[k].slot = ExpectedChunk(k - 1, n, B)
        /\ \A i \in 1..Len(copies) :
             /\ copies[i].frame = i - 1
             /\ copies[i].slot = (i - 1) % B
             /\ copies[i].chunk = (i - 1) \div B
        /\ pc = "done" =>
             /\ Len(infers) = CeilDiv(n, B)
             /\ Len(cbs) = CeilDiv(n, B)
             /\ \A k \in 1..Len(infers) : infers[k].chunk = k - 1
             /\ Len(copies) = n
             /\ n = 0 => trace = <<>>

C1_Witness ==
    /\ pc = "done" /\ netBatch > 1
    /\ num_imgs > netBatch /\ num_imgs % netBatch # 0
    /\ Len(Events("infer")) = CeilDiv(num_imgs, netBatch)

C2_OrderInv ==
    /\ \A i, j \in 1..Len(trace) :
         i < j =>
           /\ trace[i].chunk <= trace[j].chunk
           /\ trace[i].chunk = trace[j].chunk => Rank(trace[i].op) <= Rank(trace[j].op)
           /\ (trace[i].chunk = trace[j].chunk /\ trace[i].op = trace[j].op)
                 => trace[i].op \in {"copy", "read"}
    /\ \A j \in 1..Len(trace) :
         (trace[j].op = "copy" /\ trace[j].chunk > 0) =>
            \E i \in 1..(j - 1) : trace[i].op = "callback" /\ trace[i].chunk = trace[j].chunk - 1
    /\ pc = "failed" => trace # <<>> /\ trace[Len(trace)].op \in {"setbatch", "infer", "callback", "read"}

\* C2: within InferBatch each chunk runs fill -> (SetBatch) -> inference call ->
\* collect outputs -> callback, each of the last three once; nothing of chunk
\* k+1 happens before the callback of chunk k; and once a call of the request
\* or the callback has failed no further call is made: nothing is filled,
\* inferred, delivered or retried.
C2_Order ==
    /\ [](C2_OrderInv)
    /\ [][pc = "failed" => (pc' = "failed" /\ trace' = trace /\ input' = input)]_vars

C2_Witness ==
    /\ pc = "failed"
    /\ Len(Events("callback")) = 1
    /\ Len(Events("infer")) = 2
    /\ num_imgs > 2 * netBatch

\* C3: Compute on a non-empty image sequence reads only rows 0..chunkSize-1 of
\* the output for each chunk, and on return vectors holds images.size()
\* entries, entry i a copy of row i mod B as chunk floor(i/B) computed it from
\* frame i.
C3_ComputeRows ==
    LET reads == Events("read")
        cbs == Events("callback")
    IN  /\ \A i \in 1..Len(reads) :
             \E k \in 1..Len(cbs) :
                cbs[k].chunk = reads[i].chunk /\ reads[i].slot < cbs[k].slot
        /\ (pc = "done" /\ caller = "Compute" /\ num_imgs > 0) =>
             /\ Len(vectors) = num_imgs
             /\ \A i \in 0..(num_imgs - 1) :
                  /\ vectors[i + 1].chunk = i \div netBatch
                  /\ vectors[i + 1].row = i % netBatch
                  /\ vectors[i + 1].frame = i

\* the last chunk was smaller than the batch and the output still holds a row
\* an earlier, full chunk wrote
C3_Witness ==
    /\ pc = "done" /\ caller = "Compute" /\ dynEnabled
    /\ num_imgs > netBatch /\ num_imgs % netBatch # 0
    /\ \E r \in DOMAIN output :
         output[r].chunk >= 0 /\ output[r].chunk < (num_imgs - 1) \div netBatch

\* C4: a SetBatch is issued for a chunk only when dynamic batching is enabled on
\* the loaded network and the chunk is smaller than the configured batch size;
\* after the fallback of Load (two LoadNetwork calls) none is issued.
C4_SetBatchOnlyWhenDynamic ==
    \A i \in 1..Len(trace) :
       trace[i].op = "setbatch" =>
          /\ dynEnabled
          /\ trace[i].slot < netBatch
          /\ Len(loads) = 1

\* C5: a failed first LoadNetwork is followed by exactly one more, with network
\* batch size 1 and dynamic batching disabled, and the load fails only if that
\* one fails too; whenever an inference call is issued the input tensor's
\* batch dimension is max_batch_size on the normal path and 1 after the
\* fallback, and after the fallback every chunk has exactly one frame.
C5_LoadFallback ==
    /\ Len(loads) <= 2
    /\ Len(loads) >= 1 => loads[1].batch = max_batch_size /\ ~loads[1].dynOff
    /\ Len(loads) = 1 => loads[1].ok
    /\ Len(loads) = 2 =>
         /\ ~loads[1].ok
         /\ loads[2].batch = 1 /\ loads[2].dynOff
         /\ ~dynEnabled
    /\ lpc = "failed_load" <=> (Len(loads) = 2 /\ ~loads[2].ok)
    /\ Events("infer") # <<>> =>
         /\ lpc = "loaded"
         /\ Cardinality(DOMAIN input) = (IF Len(loads) = 1 THEN max_batch_size ELSE 1)
         /\ netBatch = Cardinality(DOMAIN input)
    /\ Len(loads) = 2 =>
         /\ \A i \in 1..Len(trace) : trace[i].op = "callback" => trace[i].slot = 1
         /\ \A i \in 1..Len(trace) : trace[i].op = "copy" => trace[i].slot = 0

C5_Witness ==
    /\ Len(loads) = 2 /\ max_batch_size > 1
    /\ pc = "done" /\ num_imgs >= 2
    /\ Len(Events("infer")) = num_imgs

\* C8: every vector Compute returns has as many elements as the output's
\* feature dimension, and a requested shape (h, w) with h*w different from the
\* feature dimension makes Compute fail.
C8_ReshapeMismatchFails ==
    (pc = "done" /\ caller = "Compute" /\ num_imgs > 0) =>
       /\ \A i \in 1..Len(vectors) : vectors[i].rows * vectors[i].cols = featDim
       /\ outp_shape # <<0, 0>> => outp_shape[1] * outp_shape[2] = featDim

\* ================================================================ mask_rcnn
\* A row of the detection output (batch, label, prob, x1, y1, x2, y2).  The
\* floats are kept as scaled integers: batch2 and cls2 are twice the value,
\* prob10 and the coordinates are ten times the value.
Row(b2, c2, p10, g) ==
    [batch2 |-> b2, cls2 |-> c2, prob10 |-> p10,
     x1 |-> g[1], y1 |-> g[2], x2 |-> g[3], y2 |-> g[4]]

\* PROBABILITY_THRESHOLD = 0.2f, times ten
ProbThreshold10 == 2

BoxGood == <<1, 1, 5, 5>>
BoxFlat == <<5, 1, 5, 5>>

\* rows that differ in the batch index: -1, -0.5, 0, 1, .., MaxNetBatch
RowsMask ==
    {Row(b2, 2, p10, BoxGood) :
        b2 \in {-2, -1} \cup {2 * b : b \in 0..MaxNetBatch}, p10 \in {2, 9}}

\* rows of batch 0 that differ in the class id (1, 1.5, 2, .., PaletteSize + 1),
\* the probability and the box
RowsDecode ==
    {Row(0, c2, 9, BoxGood) : c2 \in {3} \cup {2 * c : c \in 1..(PaletteSize + 1)}}
    \cup {Row(0, 2 * c, 2, BoxGood) : c \in 1..2}
    \cup {Row(0, 2 * c, 9, BoxFlat) : c \in 1..2}

MaxBoxes == PaletteSize + 1

\* static_cast<int>(float) of the value h2 / 2: truncation toward zero
ToIntFloor(h2) == h2 \div 2

ToInt(h2) == IF h2 >= 0 THEN h2 \div 2 ELSE -((-h2) \div 2)

\* static_cast<size_t>(box_info[1] + 1e-6f) of the value c2 / 2, c2 >= 0
ClassId(c2) == c2 \div 2

\* std::min(std::max(0.0f, x * size), size), in tenths of a pixel
Pixel(x10, size) == Min(IF x10 * size > 0 THEN x10 * size ELSE 0, 10 * size)

\* static_cast<int>(b - a) of two clamped coordinates
BoxExtent(a10, b10, size) ==
    LET d == Pixel(b10, size) - Pixel(a10, size)
    IN  IF d >= 0 THEN d \div 10 ELSE -((-d) \div 10)

\* prob > PROBABILITY_THRESHOLD && box_width > 0 && box_height > 0
Drawn(p10, bw, bh) == p10 > ProbThreshold10 /\ bw > 0 /\ bh > 0

EmplaceOverwrite(cc, c) == (c :> Cardinality(DOMAIN cc)) @@ cc

\* class_color.emplace(class_id, class_color.size()): inserts only a new key
Emplace(cc, c) == IF c \in DOMAIN cc THEN cc ELSE cc @@ (c :> Cardinality(DOMAIN cc))

\* CITYSCAPES_COLORS[color_index % arraySize(CITYSCAPES_COLORS)]
ColorOf(idx) == idx % PaletteSize

ParseNoModelCheck(h, i, m) == IF h THEN "help" ELSE IF ~i THEN "throw" ELSE "ok"

\* ParseAndCheckCommandLine: false after showUsage() for -h, std::logic_error
\* for an empty -i or -m, true otherwise
ParseAndCheckCommandLine(h, i, m) ==
    IF h THEN "help" ELSE IF ~i THEN "throw" ELSE IF ~m THEN "throw" ELSE "ok"

maskRest == <<FLAGS_h, FLAGS_i, FLAGS_m, nPaths, readable, netBatchSize>>

\* the catch blocks of main: the message is logged and main returns 1
Caught ==
    /\ errLogged' = TRUE
    /\ exitCode' = 1
    /\ mpc' = "exit"

\* main, lines 49-55
MainParse ==
    /\ mpc = "start"
    /\ LET r == ParseAndCheckCommandLine(FLAGS_h, FLAGS_i, FLAGS_m)
       IN  IF r = "help"
           THEN /\ usageShown' = TRUE
                /\ exitCode' = 0
                /\ mpc' = "exit"
                /\ UNCHANGED errLogged
           ELSE IF r = "throw"
           THEN Caught /\ UNCHANGED usageShown
           ELSE /\ mpc' = "paths"
                /\ UNCHANGED <<usageShown, exitCode, errLogged>>
    /\ UNCHANGED <<maskRest, networkRead, inferred, ci, inputIndex, images, do_rows, box,
                   class_color, dlog, written>>
    /\ UNCHANGED cnnVars

\* main, lines 58-111: the image paths, then ie.ReadNetwork
MainReadNetwork ==
    /\ mpc = "paths"
    /\ IF nPaths = 0
       THEN Caught /\ UNCHANGED networkRead
       ELSE /\ networkRead' = TRUE
            /\ mpc' = "collect"
            /\ UNCHANGED <<exitCode, errLogged>>
    /\ ci' = 0
    /\ inputIndex' = 0
    /\ UNCHANGED <<maskRest, usageShown, inferred, images, do_rows, box, class_color,
                   dlog, written>>
    /\ UNCHANGED cnnVars

\* one iteration of the loop of lines 125-138
CollectImage ==
    /\ mpc = "collect"
    /\ ci < netBatchSize
    /\ LET idx == IF inputIndex >= nPaths THEN 0 ELSE inputIndex
       IN  /\ images' = IF idx \in readable THEN Append(images, idx) ELSE images
           /\ inputIndex' = idx + 1
    /\ ci' = ci + 1
    /\ UNCHANGED <<maskRest, mpc, exitCode, usageShown, errLogged, networkRead, inferred,
                   do_rows, box, class_color, dlog, written>>
    /\ UNCHANGED cnnVars

\* main, lines 139-223: the check for no image, LoadNetwork, the input blobs,
\* Infer; the engine's detection output is any tensor of MaskBoxes rows
MainInfer ==
    /\ mpc = "collect"
    /\ ci >= netBatchSize
    /\ IF images = <<>>
       THEN Caught /\ UNCHANGED <<inferred, do_rows>>
       ELSE /\ inferred' = TRUE
            /\ do_rows' \in [1..MaskBoxes -> RowsMask]
            /\ mpc' = "decode"
            /\ UNCHANGED <<exitCode, errLogged>>
    /\ box' = 0
    /\ UNCHANGED <<maskRest, usageShown, networkRead, ci, inputIndex, images, class_color,
                   dlog, written>>
    /\ UNCHANGED cnnVars

\* C of the masks tensor: every class id of RowsDecode, 1..PaletteSize + 1,
\* has a slab
MaskC == PaletteSize + 1

\* size_t arithmetic is modulo 2^64; the model keeps 16 bits, far above every
\* offset into the masks tensor it explores
SizeMod == 2 ^ 16

\* size_t box_stride = W * H * C
box_stride == (MaskW * MaskH * MaskC) % SizeMod

MaskOffsetSigned(b, cls) == box_stride * b + MaskH * MaskW * (cls - 1)

\* box_stride * box + H * W * (class_id - 1), in size_t
MaskOffset(b, cls) ==
    (((box_stride * b) % SizeMod)
       + ((((MaskH * MaskW) % SizeMod) * ((cls - 1) % SizeMod)) % SizeMod)) % SizeMod

\* the element of the masks tensor that mask_arr = masks_data + offset points
\* to: an offset in the upper half of the range lands before masks_data
SlabStart(off) == IF off >= SizeMod \div 2 THEN off - SizeMod ELSE off

\* cv::Mat mask_mat(H, W, CV_32FC1, mask_arr) lies inside the BOXES x C x H x W
\* tensor
SlabInside(off, boxes) ==
    /\ SlabStart(off) >= 0
    /\ SlabStart(off) + MaskH * MaskW <= boxes * MaskC * MaskH * MaskW

\* idx >= 0 marks a row that passed the test of line 241: it has a colour and
\* a mask slab
Entry(kind, batch, cls, idx) ==
    [box |-> box, kind |-> kind, batch |-> batch, class_id |-> cls,
     color_index |-> idx, color |-> IF idx < 0 THEN -1 ELSE ColorOf(idx),
     mask |-> IF idx < 0 THEN -1 ELSE MaskOffset(box, cls)]

\* one iteration of the loop of lines 226-263.  A batch index below
\* netBatchSize but not below images.size() makes images[batch] and
\* output_images[batch] read past the end of the vectors: the process crashes,
\* or goes on with arbitrary cols and rows (a positive or a non-positive box
\* extent), and drawing into the stray cv::Mat goes through or throws.  A mask
\* slab that is not inside the masks tensor makes cv::resize read outside it:
\* the process crashes or goes on with whatever it read.
DecodeBox ==
    /\ mpc = "decode"
    /\ box < Len(do_rows)
    /\ LET row   == do_rows[box + 1]
           batch == ToInt(row.batch2)
           cls   == ClassId(row.cls2)
       IN  IF batch < 0
           THEN /\ mpc' = "write"
                /\ dlog' = Append(dlog, Entry("break", batch, cls, -1))
                /\ UNCHANGED <<box, class_color, exitCode, errLogged>>
           ELSE IF batch >= netBatchSize
           THEN /\ Caught
                /\ dlog' = Append(dlog, Entry("invalid", batch, cls, -1))
                /\ UNCHANGED <<box, class_color>>
           ELSE \E ub \in (IF batch >= Len(images)
                           THEN {"crash", "positive", "nonpositive", "throw"}
                           ELSE IF SlabInside(MaskOffset(box, cls), Len(do_rows))
                           THEN {"none"}
                           ELSE {"none", "maskcrash"}) :
                  LET inRange == ub \in {"none", "maskcrash"}
                      bw == IF inRange THEN BoxExtent(row.x1, row.x2, ImgSize)
                            ELSE IF ub = "nonpositive" THEN 0 ELSE 1
                      bh == IF inRange THEN BoxExtent(row.y1, row.y2, ImgSize)
                            ELSE IF ub = "nonpositive" THEN 0 ELSE 1
                      cc == Emplace(class_color, cls)
                  IN  IF ub = "crash"
                      THEN /\ mpc' = "crashed"
                           /\ exitCode' = 139
                           /\ dlog' = Append(dlog, Entry("crash", batch, cls, -1))
                           /\ UNCHANGED <<box, class_color, errLogged>>
                      ELSE IF ~Drawn(row.prob10, bw, bh)
                      THEN /\ box' = box + 1
                           /\ dlog' = Append(dlog, Entry("skip", batch, cls, -1))
                           /\ UNCHANGED <<mpc, class_color, exitCode, errLogged>>
                      ELSE IF ub = "maskcrash"
                      THEN /\ mpc' = "crashed"
                           /\ exitCode' = 139
                           /\ class_color' = cc
                           /\ dlog' = Append(dlog, Entry("crash", batch, cls, cc[cls]))
                           /\ UNCHANGED <<box, errLogged>>
                      ELSE IF ub = "throw"
                      THEN /\ Caught
                           /\ class_color' = cc
                           /\ dlog' = Append(dlog, Entry("throw", batch, cls, cc[cls]))
                           /\ UNCHANGED box
                      ELSE /\ box' = box + 1
                           /\ class_color' = cc
                           /\ dlog' = Append(dlog, Entry("draw", batch, cls, cc[cls]))
                           /\ UNCHANGED <<mpc, exitCode, errLogged>>
    /\ UNCHANGED <<maskRest, usageShown, networkRead, inferred, ci, inputIndex, images,
                   do_rows, written>>
    /\ UNCHANGED cnnVars

\* main, lines 264-283: out<i>.png for every output image, return 0
WriteImages ==
    /\ mpc = "write" \/ (mpc = "decode" /\ box >= Len(do_rows))
    /\ written' = Len(images)
    /\ exitCode' = 0
    /\ mpc' = "exit"
    /\ UNCHANGED <<maskRest, usageShown, errLogged, networkRead, inferred, ci, inputIndex,
                   images, do_rows, box, class_color, dlog>>
    /\ UNCHANGED cnnVars

\* ---------------------------------------------------------- specifications
CnnInit ==
    /\ max_batch_size \in 1..MaxBatch
    /\ numInputs \in 1..2
    /\ numOutputs \in 1..2
    /\ coreDyn \in BOOLEAN
    /\ featDim \in 1..MaxFeat
    /\ lpc = "start"
    /\ netBatch = 0
    /\ dynEnabled = FALSE
    /\ loads = <<>>
    /\ pc = "idle"
    /\ caller = "none"
    /\ num_imgs = 0
    /\ outp_shape = <<0, 0>>
    /\ batch_i = 0
    /\ current_batch_size = 0
    /\ input = <<>>
    /\ activeBatch = 0
    /\ output = <<>>
    /\ trace = <<>>
    /\ vectors \in {<<>>, <<StaleVector>>}

\* the state of main before its first statement, for given flags and files
MaskStart ==
    /\ mpc = "start"
    /\ exitCode = -1
    /\ usageShown = FALSE
    /\ errLogged = FALSE
    /\ networkRead = FALSE
    /\ inferred = FALSE
    /\ ci = 0
    /\ inputIndex = 0
    /\ images = <<>>
    /\ do_rows = <<>>
    /\ box = 0
    /\ class_color = <<>>
    /\ dlog = <<>>
    /\ written = 0

\* the smart_classroom objects with the mask_rcnn demo not started
Init ==
    /\ CnnInit
    /\ FLAGS_h = FALSE /\ FLAGS_i = TRUE /\ FLAGS_m = TRUE
    /\ nPaths = 1 /\ readable = {0} /\ netBatchSize = 1
    /\ MaskStart

Next ==
    \/ VectorCNN /\ UNCHANGED maskVars
    \/ ComputeCall /\ UNCHANGED maskVars
    \/ InferBatchCall /\ UNCHANGED maskVars
    \/ FillChunk /\ UNCHANGED maskVars
    \/ SetBatchStep /\ UNCHANGED maskVars
    \/ InferStep /\ UNCHANGED maskVars
    \/ CollectStep /\ UNCHANGED maskVars
    \/ CallbackStep /\ UNCHANGED maskVars

Spec == Init /\ [][Next]_vars

\* a VectorCNN that is never constructed
CnnIdle ==
    /\ max_batch_size = 1 /\ numInputs = 1 /\ numOutputs = 1
    /\ coreDyn = FALSE /\ featDim = 1
    /\ lpc = "start" /\ netBatch = 0 /\ dynEnabled = FALSE /\ loads = <<>>
    /\ pc = "idle" /\ caller = "none" /\ num_imgs = 0 /\ outp_shape = <<0, 0>>
    /\ batch_i = 0 /\ current_batch_size = 0 /\ input = <<>> /\ activeBatch = 0
    /\ output = <<>> /\ trace = <<>> /\ vectors = <<>>

\* main of the mask_rcnn demo from its first statement
InitMask ==
    /\ CnnIdle
    /\ FLAGS_h \in BOOLEAN /\ FLAGS_i \in BOOLEAN /\ FLAGS_m \in BOOLEAN
    /\ nPaths \in 0..MaxPaths
    /\ readable \in SUBSET (0..(nPaths - 1))
    /\ netBatchSize \in 1..MaxNetBatch
    /\ MaskStart

NextMask ==
    \/ MainParse
    \/ MainReadNetwork
    \/ CollectImage
    \/ MainInfer
    \/ DecodeBox
    \/ WriteImages

SpecMask == InitMask /\ [][NextMask]_vars

\* the decoder of main on one readable image and a network of batch size 1,
\* from the state after Infer, for any detection output of MaxBoxes rows
InitDecode ==
    /\ CnnIdle
    /\ FLAGS_h = FALSE /\ FLAGS_i = TRUE /\ FLAGS_m = TRUE
    /\ nPaths = 1 /\ readable = {0} /\ netBatchSize = 1
    /\ mpc = "decode"
    /\ exitCode = -1
    /\ usageShown = FALSE
    /\ errLogged = FALSE
    /\ networkRead = TRUE
    /\ inferred = TRUE
    /\ ci = 1
    /\ inputIndex = 1
    /\ images = <<0>>
    /\ do_rows \in [1..MaxBoxes -> RowsDecode]
    /\ box = 0
    /\ class_color = <<>>
    /\ dlog = <<>>
    /\ written = 0

NextDecode ==
    \/ DecodeBox
    \/ WriteImages

SpecDecode == InitDecode /\ [][NextDecode]_vars

\* rows of batch 0 that differ in the class id, 0..MaskC + 1, all with a
\* drawable box, and a class 0 row below the probability threshold
RowsSlab ==
    {Row(0, 2 * c, 9, BoxGood) : c \in 0..(MaskC + 1)} \cup {Row(0, 0, 2, BoxGood)}

\* the decoder as in InitDecode, for detection outputs whose class ids are
\* any the engine can write
InitSlab ==
    /\ CnnIdle
    /\ FLAGS_h = FALSE /\ FLAGS_i = TRUE /\ FLAGS_m = TRUE
    /\ nPaths = 1 /\ readable = {0} /\ netBatchSize = 1
    /\ mpc = "decode"
    /\ exitCode = -1
    /\ usageShown = FALSE
    /\ errLogged = FALSE
    /\ networkRead = TRUE
    /\ inferred = TRUE
    /\ ci = 1
    /\ inputIndex = 1
    /\ images = <<0>>
    /\ do_rows \in [1..MaxBoxes -> RowsSlab]
    /\ box = 0
    /\ class_color = <<>>
    /\ dlog = <<>>
    /\ written = 0

SpecSlab == InitSlab /\ [][NextDecode]_vars

\* ------------------------------------------------------ properties, mask_rcnn
\* index of the first row of t that satisfies P, Len(t) + 1 when none does
FirstRow(t, P(_)) ==
    IF \E i \in 1..Len(t) : P(t[i])
    THEN CHOOSE i \in 1..Len(t) : P(t[i]) /\ \A j \in 1..(i - 1) : ~P(t[j])
    ELSE Len(t) + 1

\* the tensor entry is -1 or less: the batch index the decoder takes from it,
\* an int, is negative
AtMostMinusOne(r) == r.batch2 <= -2

\* C6: the rows are examined in row order; the first row whose batch index is
\* negative (the int the decoder takes from the row: an entry of -1 or less,
\* since static_cast<int> truncates toward zero) ends the loop: it and the rows
\* after it are not checked for an invalid batch index, reported, coloured or
\* drawn, whatever they hold, and when the loop ends there every row before it
\* was examined.  No other row ends the loop that way.
C6_NegativeRowTerminates ==
    LET term == FirstRow(do_rows, AtMostMinusOne)
    IN  /\ \A i \in 1..Len(dlog) :
             /\ dlog[i].box = i - 1
             /\ i <= term
             /\ i = term <=> dlog[i].kind = "break"
        /\ mpc = "write" => Len(dlog) = term
        /\ (mpc = "exit" /\ exitCode = 0 /\ inferred) =>
              Len(dlog) = Min(term, Len(do_rows))

C6_Witness ==
    /\ mpc = "exit" /\ exitCode = 0
    /\ Len(do_rows) >= 2
    /\ do_rows[1].batch2 = -2
    /\ do_rows[2].batch2 = 0 /\ do_rows[2].prob10 > ProbThreshold10
    /\ Len(dlog) = 1 /\ dlog[1].kind = "break"

Draws == {i \in 1..Len(dlog) : dlog[i].kind = "draw"}

\* the number of distinct class ids drawn before the first drawn box of class c
SeenBefore(c) ==
    LET first == CHOOSE i \in Draws : dlog[i].class_id = c
                                      /\ \A j \in Draws : dlog[j].class_id = c => i <= j
    IN  Cardinality({dlog[j].class_id : j \in {d \in Draws : d < first}})

\* C7: drawn boxes of the same class id get the same colour; the k-th distinct
\* class id (from 0, in order of first drawn box; rows that are not drawn do not
\* count) gets palette entry k mod N, so different class ids get different
\* colours unless their ranks agree modulo N, and class_color holds exactly the
\* drawn class ids, each with its rank.
C7_ClassColours ==
    /\ \A i \in Draws :
         /\ dlog[i].color_index = SeenBefore(dlog[i].class_id)
         /\ dlog[i].color = SeenBefore(dlog[i].class_id) % PaletteSize
    /\ \A i, j \in Draws :
         /\ dlog[i].class_id = dlog[j].class_id => dlog[i].color = dlog[j].color
         /\ (dlog[i].class_id # dlog[j].class_id /\ dlog[i].color = dlog[j].color) =>
               /\ dlog[i].color_index # dlog[j].color_index
               /\ (dlog[i].color_index - dlog[j].color_index) % PaletteSize = 0
    /\ DOMAIN class_color = {dlog[i].class_id : i \in Draws}
    /\ \A c \in DOMAIN class_color : class_color[c] = SeenBefore(c)

\* PaletteSize + 1 distinct classes were drawn and the last took colour 0 again
C7_Witness ==
    /\ Cardinality(Draws) = PaletteSize + 1
    /\ Cardinality({dlog[i].class_id : i \in Draws}) = PaletteSize + 1
    /\ dlog[Len(dlog)].kind = "draw"
    /\ dlog[Len(dlog)].color_index = PaletteSize
    /\ dlog[Len(dlog)].color = 0

ConfigError == ~FLAGS_h /\ (~FLAGS_i \/ ~FLAGS_m)

\* C9 as stated: with a missing -i or -m the process prints usage and exits
\* with code 0 without reading a model or running inference.
C9_ConfigErrorExitsZero ==
    (ConfigError /\ mpc = "exit") =>
        exitCode = 0 /\ usageShown /\ ~networkRead /\ ~inferred

\* C9, amended: a missing -i or -m is a std::logic_error that main catches: the
\* message is logged, no usage is printed, no model is read, no inference runs
\* and the process exits with code 1; usage and exit code 0 are what -h gives,
\* also without reading a model.
C9_ConfigErrorExitsOne ==
    /\ ConfigError =>
         /\ mpc \in {"start", "exit"}
         /\ ~networkRead /\ ~inferred /\ ~usageShown
         /\ mpc = "exit" => exitCode = 1 /\ errLogged
    /\ FLAGS_h =>
         /\ mpc \in {"start", "exit"}
         /\ ~networkRead /\ ~inferred /\ ~errLogged
         /\ mpc = "exit" => exitCode = 0 /\ usageShown

C9_Witness ==
    /\ mpc = "exit" /\ ~FLAGS_h /\ FLAGS_i /\ ~FLAGS_m
    /\ exitCode = 1 /\ errLogged

\* C10: every row that is decoded has a batch index below the number of images
\* loaded, and a row with a batch index of netBatchSize or more ends the run
\* with exit code 1 and no out<i>.png written.
C10_BatchIndexInRange ==
    /\ \A i \in 1..Len(dlog) :
         dlog[i].kind \in {"skip", "draw", "throw", "crash"} => dlog[i].batch < Len(images)
    /\ \A i \in 1..Len(dlog) :
         dlog[i].batch >= netBatchSize =>
            dlog[i].kind = "invalid" /\ exitCode = 1 /\ written = 0 /\ mpc = "exit"

\* C11: for every row that passes the test of line 241 the class id is in
\* 1..C, the offset box*C*H*W + (class_id - 1)*H*W is computed without
\* unsigned wrap-around, and the slab of H*W elements that starts there lies
\* inside the BOXES x C x H x W masks tensor.
C11_MaskSlabInside ==
    \A i \in 1..Len(dlog) :
       dlog[i].color_index >= 0 =>
          /\ dlog[i].class_id >= 1 /\ dlog[i].class_id <= MaskC
          /\ dlog[i].mask = MaskOffsetSigned(dlog[i].box, dlog[i].class_id)
          /\ dlog[i].mask >= 0
          /\ dlog[i].mask + MaskH * MaskW <= Len(do_rows) * MaskC * MaskH * MaskW
====
